---- MODULE Spec2Model ----
(***************************************************************************)
(* A model of trading_bot.py: the candidate ranking (get_top_gainers), the *)
(* signal computation (calculate_strategy) and the scan loop (run_scanner).*)
(*                                                                         *)
(* Numbers.  Prices are exact multiples of Unit, so that every division    *)
(* the code performs (/4 for HA_Close, the repeated /2 of HA_Open) is      *)
(* exact in integer arithmetic.  A float that may be NaN or None is an     *)
(* optional value: <<>> is NaN/None and <<v>> is the number v.             *)
(***************************************************************************)
EXTENDS Integers, Sequences, FiniteSets, TLC

VARIABLES
    pc,             \* position of run_scanner / of the function under test
    top_coins,      \* run_scanner: the ranked candidates
    idx,            \* run_scanner: position of the for loop in top_coins (1-based)
    df,             \* the candle series being processed
    result,         \* what calculate_strategy returned: signal, entry, sl, tp
    fetchLog,       \* symbols whose candles were requested, in order
    analyzeLog,     \* symbols handed to calculate_strategy, with the signal found
    notifyLog,      \* bot.send_message attempts, in order
    errorLog,       \* symbols whose processing raised ("Error analyzing ...")
    tickers,        \* what exchange.fetch_tickers() gave to get_top_gainers
    nLoss,          \* calculate_strategy: df['nLoss']
    trailing_stop,  \* calculate_strategy: the trailing_stop list
    i,              \* calculate_strategy: index of the trailing stop loop (0-based)
    nanCompared,    \* a NaN has been an operand of a comparison (>, <, max, min)
    ha,             \* calculate_strategy: df['HA_Close'] and df['HA_Open']
    returned        \* the calls of calculate_strategy that returned, in order

vars == <<pc, top_coins, idx, df, result, fetchLog, analyzeLog, notifyLog,
          errorLog, tickers, nLoss, trailing_stop, i, nanCompared, ha, returned>>

---------------------------------------------------------------------------
(* CONFIGURATION (trading_bot.py lines 13-20).  LIMIT, TOP_N, SL_LOOKBACK  *)
(* and ATR_PERIOD are scaled down from 100, 25, 10 and 10; the scaling     *)
(* keeps LIMIT - 2 >= ATR_PERIOD (the two rows a signal reads lie after    *)
(* the ATR warm-up) and SL_LOOKBACK <= LIMIT.                              *)
LIMIT == 5
TOP_N == 2
SL_LOOKBACK == 2
ATR_PERIOD == 2
RISK_REWARD == 2
KEY_VALUE == 2

\* Largest number of entries of a ticker map handed to get_top_gainers.
MaxTickers == 3

\* The fixed-point unit: one price step.  HA_Open halves once per index, so
\* 2^(LIMIT+2) keeps every intermediate value an integer.
Unit == 2 ^ (LIMIT + 2)

---------------------------------------------------------------------------
(* Optional floats: NaN / None and the Python operations on them.          *)
NaN == <<>>
F(v) == <<v>>
IsNaN(x) == x = <<>>
Val(x) == x[1]

\* a - b, a + b, k * a: NaN if an operand is NaN
FSub(a, b) == IF IsNaN(a) \/ IsNaN(b) THEN NaN ELSE F(Val(a) - Val(b))
FAdd(a, b) == IF IsNaN(a) \/ IsNaN(b) THEN NaN ELSE F(Val(a) + Val(b))
FMul(k, a) == IF IsNaN(a) THEN NaN ELSE F(k * Val(a))

\* a > b, a < b, a >= b, a <= b: False if an operand is NaN
FGt(a, b) == ~IsNaN(a) /\ ~IsNaN(b) /\ Val(a) > Val(b)
FLt(a, b) == ~IsNaN(a) /\ ~IsNaN(b) /\ Val(a) < Val(b)
FGe(a, b) == ~IsNaN(a) /\ ~IsNaN(b) /\ Val(a) >= Val(b)
FLe(a, b) == ~IsNaN(a) /\ ~IsNaN(b) /\ Val(a) <= Val(b)

\* Python's builtin max(a, b) / min(a, b): the first argument unless the
\* second compares greater / smaller; a NaN second argument never does.
PyMax(a, b) == IF FGt(b, a) THEN b ELSE a
PyMin(a, b) == IF FLt(b, a) THEN b ELSE a

\* Integer helpers
Min2(a, b) == IF a <= b THEN a ELSE b
Max2(a, b) == IF a >= b THEN a ELSE b
SetMin(S) == CHOOSE m \in S : \A x \in S : m <= x
SetMax(S) == CHOOSE m \in S : \A x \in S : m >= x
Abs(x) == IF x < 0 THEN -x ELSE x

---------------------------------------------------------------------------
(* Symbols are strings; the model spells them as sequences of characters   *)
(* so that Python's substring test  'sub' in symbol  can be computed.      *)
Contains(sub, s) ==
    \E k \in 1..(Len(s) - Len(sub) + 1) : SubSeq(s, k, k + Len(sub) - 1) = sub

SymA == <<"A", "/", "U", "S", "D", "T">>
SymB == <<"B", "/", "U", "S", "D", "T">>
SymC == <<"C", "/", "U", "S", "D", "T">>
SymAUp == <<"A", "U", "P", "/", "U", "S", "D", "T">>
SymADown == <<"A", "D", "O", "W", "N", "/", "U", "S", "D", "T">>
SymABtc == <<"A", "/", "B", "T", "C">>

Symbols == {SymA, SymB, SymC, SymAUp, SymADown, SymABtc}

\* the 24h changes a ticker may carry: None (absent) or a percentage
Percentages == {NaN, F(-5), F(0), F(5)}

\* The ticker map with the symbols ss and the changes pp, in dict
\* (insertion) order; a dict holds no key twice.
TickerMap(ss, pp) == [k \in 1..Len(ss) |-> [symbol |-> ss[k], percentage |-> pp[k]]]
NoKeyTwice(ss) == \A x, y \in 1..Len(ss) : ss[x] = ss[y] => x = y

\* what exchange.fetch_tickers() did: it raised, or it returned the map t
FetchRaised == [raised |-> TRUE, tickers |-> <<>>]
FetchReturned(t) == [raised |-> FALSE, tickers |-> t]

\* Mutant of Eligible: only the '/USDT' test, the leveraged tokens get through.
EligibleUsdtOnly(symbol) == Contains(<<"/", "U", "S", "D", "T">>, symbol)

\* get_top_gainers, the filter of valid_tickers
Eligible(symbol) ==
    /\ Contains(<<"/", "U", "S", "D", "T">>, symbol)
    /\ ~Contains(<<"U", "P", "/">>, symbol)
    /\ ~Contains(<<"D", "O", "W", "N", "/">>, symbol)

\* the sort key: tickers[x]['percentage'] if tickers[x]['percentage'] else -100
\* (None and 0.0 are both falsy in Python)
SortKey(percentage) ==
    IF ~IsNaN(percentage) /\ Val(percentage) # 0 THEN Val(percentage) ELSE -100

\* tickers[x]['percentage'] for a ticker map given in dict (insertion) order
PercentageOf(t, symbol) ==
    LET k == CHOOSE k \in 1..Len(t) : t[k].symbol = symbol IN t[k].percentage

\* valid_tickers: the eligible symbols in the order of tickers.items()
RECURSIVE ValidTickers(_)
ValidTickers(t) ==
    IF t = <<>> THEN <<>>
    ELSE IF Eligible(Head(t).symbol)
         THEN <<Head(t).symbol>> \o ValidTickers(Tail(t))
         ELSE ValidTickers(Tail(t))

\* sorted(valid_tickers, key=..., reverse=True): descending by key and stable,
\* symbols with equal keys keep the order they had in valid_tickers
RECURSIVE InsertDesc(_, _, _)
InsertDesc(t, x, s) ==
    IF s = <<>> THEN <<x>>
    ELSE IF SortKey(PercentageOf(t, Head(s))) >= SortKey(PercentageOf(t, x))
         THEN <<Head(s)>> \o InsertDesc(t, x, Tail(s))
         ELSE <<x>> \o s

RECURSIVE SortedTickers(_, _)
SortedTickers(t, valid) ==
    IF valid = <<>> THEN <<>>
    ELSE InsertDesc(t, valid[Len(valid)],
                    SortedTickers(t, SubSeq(valid, 1, Len(valid) - 1)))

\* sorted_tickers[:TOP_N]
Truncate(s, n) == SubSeq(s, 1, Min2(n, Len(s)))

\* get_top_gainers: fetched is what exchange.fetch_tickers() did, either
\* FetchRaised or FetchReturned(the map)
GetTopGainers(fetched) ==
    IF fetched.raised THEN <<>>
    ELSE Truncate(SortedTickers(fetched.tickers, ValidTickers(fetched.tickers)), TOP_N)

---------------------------------------------------------------------------
(* Candles.  A candle keeps the four prices calculate_strategy reads       *)
(* (timestamp and volume are never read).  Exchange candles are well       *)
(* formed: low <= open, close <= high.                                     *)
Prices(levels) == {k * Unit : k \in levels}

Candles(prices) ==
    {c \in [open : prices, high : prices, low : prices, close : prices] :
        c.low <= c.open /\ c.low <= c.close /\ c.open <= c.high /\ c.close <= c.high}

FlatCandle(p) == [open |-> p, high |-> p, low |-> p, close |-> p]

\* the series of n candles, with prices of the given levels, that are flat
\* at one price up to their last m candles, which are arbitrary
SeriesWithTail(n, m, levels) ==
    {[k \in 1..n |-> IF k <= n - m THEN FlatCandle(p) ELSE tail[k - (n - m)]] :
        p \in Prices(levels), tail \in [1..m -> Candles(Prices(levels))]}

---------------------------------------------------------------------------
(* calculate_strategy.  Rows are numbered from 0 in the code and from 1 in *)
(* a TLA+ sequence: row k of the code is df[k + 1].                        *)

\* df['HA_Close'] = (open + high + low + close) / 4
HA_Close(d) ==
    [k \in 1..Len(d) |-> (d[k].open + d[k].high + d[k].low + d[k].close) \div 4]

\* Mutant of HA_Open: every row after the first averages the previous raw
\* candle's open and close, not the previous Heikin Ashi values.
HA_OpenFromCandles(d) ==
    [k \in 1..Len(d) |->
        IF k = 1 THEN (d[1].open + d[1].close) \div 2
        ELSE (d[k - 1].open + d[k - 1].close) \div 2]

\* ha_open: seeded with (open[0] + close[0]) / 2, then
\* (ha_open[i-1] + HA_Close[i-1]) / 2
RECURSIVE HA_Open(_)
HA_Open(d) ==
    IF Len(d) = 1 THEN <<(d[1].open + d[1].close) \div 2>>
    ELSE LET prev == HA_Open(SubSeq(d, 1, Len(d) - 1))
         IN  Append(prev, (prev[Len(d) - 1] + HA_Close(d)[Len(d) - 1]) \div 2)

\* The true range of row k >= 1 (pandas_ta leaves row 0 undefined):
\* max(high - low, |high - prev close|, |low - prev close|)
TrueRange(d, k) ==
    Max2(d[k].high - d[k].low,
         Max2(Abs(d[k].high - d[k - 1].close), Abs(d[k].low - d[k - 1].close)))

\* ta.atr(high, low, close, length=ATR_PERIOD) is library code.  It is NaN
\* during the warm-up (rows 0 .. ATR_PERIOD-1) and afterwards a weighted
\* mean, with positive weights, of the true ranges of rows 1 .. k: a value
\* strictly between the smallest and the largest of them (that value itself
\* when they are all equal).  The model lets it be one of three such
\* values: near the smallest, half way, near the largest.
AtrValues(lo, hi) ==
    IF lo = hi THEN {lo}
    ELSE {lo + (hi - lo) \div 8, lo + (hi - lo) \div 2, hi - (hi - lo) \div 8}

AtrAt(d, k) ==
    IF k <= ATR_PERIOD THEN {NaN}
    ELSE LET trs == {TrueRange(d, j) : j \in 2..k}
         IN  {F(v) : v \in AtrValues(SetMin(trs), SetMax(trs))}

RECURSIVE AtrPrefixes(_, _)
AtrPrefixes(d, n) ==
    IF n = 0 THEN {<<>>}
    ELSE {Append(a, v) : a \in AtrPrefixes(d, n - 1), v \in AtrAt(d, n)}

\* what ta.atr may return for the candles d
AtrChoices(d) == AtrPrefixes(d, Len(d))

\* df['nLoss'] = KEY_VALUE * df['ATR']
NLoss(atr) == [k \in 1..Len(atr) |-> FMul(KEY_VALUE, atr[k])]

\* Mutant of TrailStep: no ratchet, the first two branches follow the price.
TrailStepNoRatchet(prev_stop, price, prev_price, n_loss) ==
    IF FGt(price, prev_stop) /\ FGt(prev_price, prev_stop)
    THEN FSub(price, n_loss)
    ELSE IF FLt(price, prev_stop) /\ FLt(prev_price, prev_stop)
    THEN FAdd(price, n_loss)
    ELSE IF FGt(price, prev_stop)
    THEN FSub(price, n_loss)
    ELSE FAdd(price, n_loss)

\* Mutant of TrailStep: the branch conditions test the current price only.
TrailStepIgnoresPrev(prev_stop, price, prev_price, n_loss) ==
    IF FGt(price, prev_stop)
    THEN PyMax(prev_stop, FSub(price, n_loss))
    ELSE IF FLt(price, prev_stop)
    THEN PyMin(prev_stop, FAdd(price, n_loss))
    ELSE FAdd(price, n_loss)

\* One pass of the trailing stop loop body: the four branches, in order.
TrailStep(prev_stop, price, prev_price, n_loss) ==
    IF FGt(price, prev_stop) /\ FGt(prev_price, prev_stop)
    THEN PyMax(prev_stop, FSub(price, n_loss))
    ELSE IF FLt(price, prev_stop) /\ FLt(prev_price, prev_stop)
    THEN PyMin(prev_stop, FAdd(price, n_loss))
    ELSE IF FGt(price, prev_stop)
    THEN FSub(price, n_loss)
    ELSE FAdd(price, n_loss)

\* Whether that pass evaluates a comparison one of whose operands is NaN:
\* the branch conditions read prev_stop, and max/min of the first two
\* branches compare prev_stop with price -/+ n_loss.
StepComparesNaN(prev_stop, price, prev_price, n_loss) ==
    \/ IsNaN(prev_stop)
    \/ /\ IsNaN(n_loss)
       /\ \/ FGt(price, prev_stop) /\ FGt(prev_price, prev_stop)
          \/ FLt(price, prev_stop) /\ FLt(prev_price, prev_stop)

\* the trailing_stop list after the loop has run over rows 1 .. upto
\* (trailing_stop = [0.0] * len(df) before it)
RECURSIVE TrailingStop(_, _, _)
TrailingStop(d, nloss, upto) ==
    IF upto = 0 THEN [k \in 1..Len(d) |-> F(0)]
    ELSE LET ts == TrailingStop(d, nloss, upto - 1)
             hc == HA_Close(d)
         IN  [ts EXCEPT ![upto + 1] =
                 TrailStep(ts[upto], F(hc[upto + 1]), F(hc[upto]), nloss[upto + 1])]

\* Mutant of RecentRows: the window ends before the signal candle.
RecentRowsBeforeSignal(d) == (Max2(1, Len(d) - SL_LOOKBACK))..(Len(d) - 1)

\* df['low'].iloc[-SL_LOOKBACK:].min() and df['high'].iloc[-SL_LOOKBACK:].max()
RecentRows(d) == (Max2(1, Len(d) - SL_LOOKBACK + 1))..Len(d)

\* Mutant of RecentLowsMin: the lowest high of the window.
RecentLowsFromHighs(d) == SetMin({d[k].high : k \in RecentRows(d)})

RecentLowsMin(d) == SetMin({d[k].low : k \in RecentRows(d)})
RecentHighsMax(d) == SetMax({d[k].high : k \in RecentRows(d)})

NoSignal == "None"

\* 4. Generate Signals: the crossover test on the last two rows and the
\* stop loss / take profit of the signal found
\* Mutant of LongCross: the previous candle must be strictly below its stop.
LongCrossStrict(d, ts) ==
    /\ FGt(F(HA_Close(d)[Len(d)]), ts[Len(d)])
    /\ FLt(F(HA_Close(d)[Len(d) - 1]), ts[Len(d) - 1])

LongCross(d, ts) ==
    /\ FGt(F(HA_Close(d)[Len(d)]), ts[Len(d)])
    /\ FLe(F(HA_Close(d)[Len(d) - 1]), ts[Len(d) - 1])

\* Mutant of ShortCross: the previous candle is not looked at.
ShortCrossNoPrev(d, ts) ==
    FLt(F(HA_Close(d)[Len(d)]), ts[Len(d)])

ShortCross(d, ts) ==
    /\ FLt(F(HA_Close(d)[Len(d)]), ts[Len(d)])
    /\ FGe(F(HA_Close(d)[Len(d) - 1]), ts[Len(d) - 1])

\* Whether the crossover test compares a NaN: Python's `and` evaluates its
\* second comparison only when the first is true.
SignalComparesNaN(d, ts) ==
    \/ IsNaN(ts[Len(d)])
    \/ IsNaN(ts[Len(d) - 1]) /\ HA_Close(d)[Len(d)] # Val(ts[Len(d)])

GenerateSignal(d, ts) ==
    LET entry_price == d[Len(d)].close
    IN  IF LongCross(d, ts)
        THEN LET stop_loss == RecentLowsMin(d)
                 risk == entry_price - stop_loss
             IN  [signal |-> "LONG", entry |-> entry_price, sl |-> stop_loss,
                  tp |-> entry_price + (risk * RISK_REWARD)]
        ELSE IF ShortCross(d, ts)
        THEN LET stop_loss == RecentHighsMax(d)
                 risk == stop_loss - entry_price
             IN  [signal |-> "SHORT", entry |-> entry_price, sl |-> stop_loss,
                  tp |-> entry_price - (risk * RISK_REWARD)]
        ELSE [signal |-> NoSignal, entry |-> entry_price, sl |-> 0, tp |-> 0]

\* calculate_strategy(df), given what ta.atr returned
CalculateStrategy(d, atr) ==
    GenerateSignal(d, TrailingStop(d, NLoss(atr), Len(d) - 1))

---------------------------------------------------------------------------
(* The inputs of the scanner, ranking and strategy specifications.         *)

\* run_scanner: the tickers and the candle series the exchange may return.
\* A series has at most LIMIT candles (fetch_ohlcv is called with
\* limit=LIMIT); the short ones are the empty series and one of LIMIT - 1.
ScanSymbols == {SymA, SymB, SymC, SymAUp}
ScanPercentages == {NaN, F(5)}
FetchTickersOutcomes ==
    {FetchRaised} \cup
    UNION {{FetchReturned(TickerMap(ss, pp)) :
                ss \in {f \in [1..m -> ScanSymbols] : NoKeyTwice(f)},
                pp \in [1..m -> ScanPercentages]} :
           m \in 0..MaxTickers}
ScanSeries ==
    SeriesWithTail(LIMIT, 2, {1, 2}) \cup {<<>>} \cup SeriesWithTail(LIMIT - 1, 0, {1, 2})

\* calculate_strategy on its own: on two price levels every row after the
\* ATR warm-up varies, on three levels the last two rows do
StrategySeries ==
    SeriesWithTail(LIMIT, LIMIT - ATR_PERIOD, {1, 2}) \cup SeriesWithTail(LIMIT, 2, {1, 2, 3})

NoTickers == FetchReturned(<<>>)
NoResult == [signal |-> NoSignal, entry |-> 0, sl |-> 0, tp |-> 0]

\* the DataFrame before the Heikin Ashi columns are added
NoColumns == [close |-> <<>>, open |-> <<>>]

\* calculate_strategy is called again and again, once per candidate and
\* scan; MaxCalls calls are followed
MaxCalls == 2

\* the series of a later call: the same candles again, or another symbol's
NextCallSeries(d) == {d} \cup SeriesWithTail(LIMIT, 0, {1})

---------------------------------------------------------------------------
(* run_scanner                                                             *)

Init ==
    /\ pc = "idle"
    /\ top_coins = <<>>
    /\ idx = 1
    /\ df = <<>>
    /\ result = NoResult
    /\ fetchLog = <<>>
    /\ analyzeLog = <<>>
    /\ notifyLog = <<>>
    /\ errorLog = <<>>
    /\ tickers = NoTickers
    /\ nLoss = <<>>
    /\ trailing_stop = <<>>
    /\ i = 0
    /\ nanCompared = FALSE
    /\ ha = NoColumns
    /\ returned = <<>>

strategyVars == <<tickers, nLoss, trailing_stop, i, nanCompared, ha, returned>>

\* Mutant of StartScan: get_top_gainers without its try/except, the failed
\* fetch ends run_scanner with the exception.
StartScanUncaught ==
    /\ pc = "idle"
    /\ \E fetched \in FetchTickersOutcomes :
        /\ top_coins' = GetTopGainers(fetched)
        /\ errorLog' = IF fetched.raised
                       THEN <<[what |-> "top_gainers", symbol |-> <<>>]>>
                       ELSE <<>>
        /\ pc' = IF fetched.raised THEN "crashed" ELSE "loop"
    /\ idx' = 1
    /\ UNCHANGED <<df, result, fetchLog, analyzeLog, notifyLog, strategyVars>>

\* top_coins = get_top_gainers(); the for loop starts at the first candidate.
\* get_top_gainers prints "Error fetching top gainers" when the fetch raised.
StartScan ==
    /\ pc = "idle"
    /\ \E fetched \in FetchTickersOutcomes :
        /\ top_coins' = GetTopGainers(fetched)
        /\ errorLog' = IF fetched.raised
                       THEN <<[what |-> "top_gainers", symbol |-> <<>>]>>
                       ELSE <<>>
    /\ idx' = 1
    /\ pc' = "loop"
    /\ UNCHANGED <<df, result, fetchLog, analyzeLog, notifyLog, strategyVars>>

\* for symbol in top_coins: the loop has run out of candidates
LoopFinished == idx > Len(top_coins)

\* Mutant of TooShort: the length check is off by one.
TooShortOffByOne(bars) == Len(bars) < LIMIT - 1

\* if len(df) < LIMIT: continue
TooShort(bars) == Len(bars) < LIMIT

\* Mutant of NextSymbol: the loop skips a candidate.
NextSymbolSkips ==
    /\ idx' = idx + 2
    /\ pc' = "loop"
    /\ df' = <<>>
    /\ result' = NoResult

\* the loop moves to the next candidate (continue, or the end of the body
\* after time.sleep); df and the strategy's result are dead from here on
NextSymbol ==
    /\ idx' = idx + 1
    /\ pc' = "loop"
    /\ df' = <<>>
    /\ result' = NoResult

\* Mutant of ExceptHandler: the try/except is around the loop, not in it,
\* and the first exception ends the scan.
ExceptHandlerAbort(symbol) ==
    /\ errorLog' = Append(errorLog, [what |-> "analyze", symbol |-> symbol])
    /\ idx' = idx
    /\ pc' = "done"
    /\ df' = <<>>
    /\ result' = NoResult

\* except Exception as e: print(f"Error analyzing {symbol}: {e}"), and the
\* loop goes on with the next candidate
ExceptHandler(symbol) ==
    /\ errorLog' = Append(errorLog, [what |-> "analyze", symbol |-> symbol])
    /\ NextSymbol

\* bars = exchange.fetch_ohlcv(symbol, ...); df = DataFrame(bars); the
\* length check
FetchOhlcv ==
    /\ pc = "loop"
    /\ ~LoopFinished
    /\ LET symbol == top_coins[idx] IN
        \/ /\ fetchLog' = Append(fetchLog, [symbol |-> symbol, raised |-> TRUE, len |-> 0])
           /\ ExceptHandler(symbol)
        \/ \E bars \in ScanSeries :
            /\ fetchLog' = Append(fetchLog,
                                  [symbol |-> symbol, raised |-> FALSE, len |-> Len(bars)])
            /\ IF TooShort(bars)
               THEN NextSymbol
               ELSE /\ df' = bars
                    /\ pc' = "analyze"
                    /\ UNCHANGED <<idx, result>>
            /\ UNCHANGED errorLog
    /\ UNCHANGED <<top_coins, analyzeLog, notifyLog, strategyVars>>

\* Mutant of Analyze: the dispatch is started but not awaited, and the loop
\* goes on to the next candidate with the alert still outstanding.
AnalyzeNoAwait ==
    /\ pc = "analyze"
    /\ LET symbol == top_coins[idx] IN
        \/ /\ analyzeLog' = Append(analyzeLog, [symbol |-> symbol, outcome |-> "raised"])
           /\ ExceptHandler(symbol)
        \/ \E atr \in AtrChoices(df) :
            LET r == CalculateStrategy(df, atr) IN
            /\ analyzeLog' = Append(analyzeLog, [symbol |-> symbol, outcome |-> r.signal])
            /\ NextSymbol
            /\ UNCHANGED errorLog
    /\ UNCHANGED <<top_coins, fetchLog, notifyLog, strategyVars>>

\* signal, entry, sl, tp = calculate_strategy(df); if signal: ...
\* calculate_strategy raises when the library call in it does.
Analyze ==
    /\ pc = "analyze"
    /\ LET symbol == top_coins[idx] IN
        \/ /\ analyzeLog' = Append(analyzeLog, [symbol |-> symbol, outcome |-> "raised"])
           /\ ExceptHandler(symbol)
        \/ \E atr \in AtrChoices(df) :
            LET r == CalculateStrategy(df, atr) IN
            /\ analyzeLog' = Append(analyzeLog, [symbol |-> symbol, outcome |-> r.signal])
            /\ IF r.signal # NoSignal
               THEN /\ result' = r
                    /\ pc' = "notify"
                    /\ UNCHANGED <<idx, df>>
               ELSE NextSymbol
            /\ UNCHANGED errorLog
    /\ UNCHANGED <<top_coins, fetchLog, notifyLog, strategyVars>>

\* Mutant of SendTelegramMessage: a failed dispatch is tried again.
SendTelegramMessageRetry ==
    /\ pc = "notify"
    /\ LET symbol == top_coins[idx] IN
        \E delivered \in BOOLEAN :
            /\ notifyLog' = Append(notifyLog,
                                   [symbol |-> symbol, signal |-> result.signal,
                                    entry |-> result.entry, sl |-> result.sl,
                                    tp |-> result.tp, delivered |-> delivered])
            /\ errorLog' = IF delivered THEN errorLog
                           ELSE Append(errorLog, [what |-> "telegram", symbol |-> symbol])
            /\ IF delivered THEN NextSymbol ELSE UNCHANGED <<idx, pc, df, result>>
    /\ UNCHANGED <<top_coins, fetchLog, analyzeLog, strategyVars>>

\* await send_telegram_message(msg): one bot.send_message attempt; when it
\* raises, send_telegram_message prints "Telegram Error" and returns.  The
\* alert is recorded with the values the message text is formatted from.
SendTelegramMessage ==
    /\ pc = "notify"
    /\ LET symbol == top_coins[idx] IN
        \E delivered \in BOOLEAN :
            /\ notifyLog' = Append(notifyLog,
                                   [symbol |-> symbol, signal |-> result.signal,
                                    entry |-> result.entry, sl |-> result.sl,
                                    tp |-> result.tp, delivered |-> delivered])
            /\ errorLog' = IF delivered THEN errorLog
                           ELSE Append(errorLog, [what |-> "telegram", symbol |-> symbol])
    /\ NextSymbol
    /\ UNCHANGED <<top_coins, fetchLog, analyzeLog, strategyVars>>

\* print("--- Scan Complete. Waiting for next candle... ---")
ScanComplete ==
    /\ pc = "loop"
    /\ LoopFinished
    /\ pc' = "done"
    /\ UNCHANGED <<top_coins, idx, df, result, fetchLog, analyzeLog, notifyLog,
                   errorLog, strategyVars>>

Next == StartScan \/ FetchOhlcv \/ Analyze \/ SendTelegramMessage \/ ScanComplete

Spec == Init /\ [][Next]_vars

\* Every call run_scanner makes returns or raises, so a scan that can take
\* a step does take one.
LiveSpec == Spec /\ WF_vars(Next)

---------------------------------------------------------------------------
(* get_top_gainers on its own                                              *)

scanVars == <<idx, df, result, fetchLog, analyzeLog, notifyLog, errorLog>>

InitRank ==
    /\ pc = "rank_call"
    /\ \/ tickers = FetchRaised
       \/ \E m \in 0..MaxTickers :
            \E ss \in [1..m -> Symbols], pp \in [1..m -> Percentages] :
                NoKeyTwice(ss) /\ tickers = FetchReturned(TickerMap(ss, pp))
    /\ top_coins = <<>>
    /\ idx = 1
    /\ df = <<>>
    /\ result = NoResult
    /\ fetchLog = <<>>
    /\ analyzeLog = <<>>
    /\ notifyLog = <<>>
    /\ errorLog = <<>>
    /\ nLoss = <<>>
    /\ trailing_stop = <<>>
    /\ i = 0
    /\ nanCompared = FALSE
    /\ ha = NoColumns
    /\ returned = <<>>

RankCall ==
    /\ pc = "rank_call"
    /\ top_coins' = GetTopGainers(tickers)
    /\ pc' = "rank_done"
    /\ UNCHANGED <<tickers, scanVars, nLoss, trailing_stop, i, nanCompared, ha, returned>>

NextRank == RankCall

SpecRank == InitRank /\ [][NextRank]_vars

---------------------------------------------------------------------------
(* calculate_strategy on its own, the trailing stop loop one row at a time *)

InitStrategy ==
    /\ pc = "cs_start"
    /\ df \in StrategySeries
    /\ top_coins = <<>>
    /\ idx = 1
    /\ result = NoResult
    /\ fetchLog = <<>>
    /\ analyzeLog = <<>>
    /\ notifyLog = <<>>
    /\ errorLog = <<>>
    /\ tickers = NoTickers
    /\ nLoss = <<>>
    /\ trailing_stop = <<>>
    /\ i = 0
    /\ nanCompared = FALSE
    /\ ha = NoColumns
    /\ returned = <<>>

otherVars == <<top_coins, idx, fetchLog, analyzeLog, notifyLog, errorLog, tickers>>

\* ta.atr is a function of the candles: the same series gives the same ATR
\* in every call
AtrOfCall(d, calls) ==
    LET same == {k \in 1..Len(calls) : calls[k].df = d} IN
    IF same = {}
    THEN {NLoss(atr) : atr \in AtrChoices(d)}
    ELSE {calls[CHOOSE k \in same : TRUE].nLoss}

\* Mutant of ComputeIndicators: the trailing stop list is seeded with the
\* last stop of the previous call instead of 0.0.
ComputeIndicatorsCarriesStop ==
    /\ pc = "cs_start"
    /\ ha' = [close |-> HA_Close(df), open |-> HA_Open(df)]
    /\ nLoss' \in AtrOfCall(df, returned)
    /\ trailing_stop' = [k \in 1..Len(df) |->
                            IF k = 1 /\ trailing_stop # <<>>
                            THEN trailing_stop[Len(trailing_stop)]
                            ELSE F(0)]
    /\ i' = 1
    /\ pc' = "cs_loop"
    /\ UNCHANGED <<df, result, nanCompared, returned, otherVars>>

\* steps 1 and 2, and trailing_stop = [0.0] * len(df)
ComputeIndicators ==
    /\ pc = "cs_start"
    /\ ha' = [close |-> HA_Close(df), open |-> HA_Open(df)]
    /\ nLoss' \in AtrOfCall(df, returned)
    /\ trailing_stop' = [k \in 1..Len(df) |-> F(0)]
    /\ i' = 1
    /\ pc' = "cs_loop"
    /\ UNCHANGED <<df, result, nanCompared, returned, otherVars>>

\* one pass of  for i in range(1, len(df))
TrailingStopStep ==
    /\ pc = "cs_loop"
    /\ i < Len(df)
    /\ LET prev_stop == trailing_stop[i]
           price == F(ha.close[i + 1])
           prev_price == F(ha.close[i])
           n_loss == nLoss[i + 1]
       IN  /\ trailing_stop' =
                [trailing_stop EXCEPT ![i + 1] = TrailStep(prev_stop, price, prev_price, n_loss)]
           /\ nanCompared' =
                (nanCompared \/ StepComparesNaN(prev_stop, price, prev_price, n_loss))
    /\ i' = i + 1
    /\ UNCHANGED <<pc, df, result, nLoss, ha, returned, otherVars>>

\* step 4 and the return
ReturnSignal ==
    /\ pc = "cs_loop"
    /\ i = Len(df)
    /\ result' = GenerateSignal(df, trailing_stop)
    /\ nanCompared' = (nanCompared \/ SignalComparesNaN(df, trailing_stop))
    /\ returned' = Append(returned, [df |-> df, ha |-> ha, nLoss |-> nLoss,
                                     result |-> result'])
    /\ pc' = "cs_done"
    /\ UNCHANGED <<df, nLoss, trailing_stop, i, ha, otherVars>>

\* the next call of calculate_strategy, by the same process: the locals of
\* the call that returned are garbage the new call must not read
CallAgain ==
    /\ pc = "cs_done"
    /\ Len(returned) < MaxCalls
    /\ df' \in NextCallSeries(df)
    /\ pc' = "cs_start"
    /\ UNCHANGED <<result, nLoss, trailing_stop, i, nanCompared, ha, returned, otherVars>>

NextStrategy == ComputeIndicators \/ TrailingStopStep \/ ReturnSignal \/ CallAgain

SpecStrategy == InitStrategy /\ [][NextStrategy]_vars

\* the loop and the fold compute the same result
StepwiseAgrees ==
    pc = "cs_done" =>
        result = GenerateSignal(df, TrailingStop(df, nLoss, Len(df) - 1))

---------------------------------------------------------------------------
(* Properties.                                                             *)

SymbolsOf(log) == [k \in 1..Len(log) |-> log[k].symbol]
InLog(log, symbol) == \E k \in 1..Len(log) : log[k].symbol = symbol
Position(symbol) == CHOOSE p \in 1..Len(top_coins) : top_coins[p] = symbol
RankingFailed == errorLog # <<>> /\ errorLog[1].what = "top_gainers"

\* C1: per-symbol isolation.  When the scan has ended, every candidate's
\* candles were requested, in ranking order, whatever failed for the others;
\* every candidate whose series arrived complete was handed to
\* calculate_strategy; and every signal found was dispatched.
C1_Isolation ==
    pc = "done" =>
        /\ SymbolsOf(fetchLog) = top_coins
        /\ \A k \in 1..Len(fetchLog) :
            (~fetchLog[k].raised /\ fetchLog[k].len >= LIMIT)
                => InLog(analyzeLog, fetchLog[k].symbol)
        /\ \A k \in 1..Len(analyzeLog) :
            analyzeLog[k].outcome \in {"LONG", "SHORT"}
                => \E m \in 1..Len(notifyLog) :
                    /\ notifyLog[m].symbol = analyzeLog[k].symbol
                    /\ notifyLog[m].signal = analyzeLog[k].outcome

\* the first candidate's processing raised and the second one's signal was
\* dispatched all the same
C1_Witness ==
    /\ pc = "done"
    /\ Len(top_coins) >= 2
    /\ \E e \in 1..Len(errorLog) :
        errorLog[e].what = "analyze" /\ errorLog[e].symbol = top_coins[1]
    /\ \E m \in 1..Len(notifyLog) :
        notifyLog[m].symbol = top_coins[2] /\ notifyLog[m].delivered

\* C2: degenerate signals are suppressed.  No alert that went out has a
\* risk <= 0: a Long's stop loss is strictly below its entry, a Short's
\* strictly above.
C2_DegenerateSuppressed ==
    \A k \in 1..Len(notifyLog) :
        notifyLog[k].delivered =>
            /\ notifyLog[k].signal = "LONG" => notifyLog[k].sl < notifyLog[k].entry
            /\ notifyLog[k].signal = "SHORT" => notifyLog[k].sl > notifyLog[k].entry

\* C3: ranking order.  The list get_top_gainers returns is in descending
\* order of the 24h change, and an eligible symbol whose change is missing
\* comes after every eligible symbol that has a change, whatever its value.
C3_RankingOrder ==
    (pc = "rank_done" /\ ~tickers.raised) =>
        LET t == tickers.tickers
            pct(symbol) == PercentageOf(t, symbol)
        IN  /\ \A a, b \in 1..Len(top_coins) :
                (a < b /\ ~IsNaN(pct(top_coins[a])) /\ ~IsNaN(pct(top_coins[b])))
                    => Val(pct(top_coins[a])) >= Val(pct(top_coins[b]))
            /\ \A m, r \in 1..Len(t) :
                ( /\ t[m].symbol \in {SymA, SymB, SymC}
                  /\ t[r].symbol \in {SymA, SymB, SymC}
                  /\ IsNaN(t[m].percentage)
                  /\ ~IsNaN(t[r].percentage)
                  /\ \E a \in 1..Len(top_coins) : top_coins[a] = t[m].symbol )
                    => \E a, b \in 1..Len(top_coins) :
                        a < b /\ top_coins[a] = t[r].symbol /\ top_coins[b] = t[m].symbol

\* C4: ranking size and eligibility.  The list holds only eligible symbols
\* (of the model's symbols these are A/USDT, B/USDT and C/USDT), none twice,
\* and exactly min(TOP_N, number of eligible symbols of the map) of them.
C4_SizeAndEligibility ==
    (pc = "rank_done" /\ ~tickers.raised) =>
        LET t == tickers.tickers
            eligible == {t[k].symbol : k \in 1..Len(t)} \cap {SymA, SymB, SymC}
        IN  /\ \A a \in 1..Len(top_coins) : top_coins[a] \in eligible
            /\ \A a, b \in 1..Len(top_coins) : top_coins[a] = top_coins[b] => a = b
            /\ Len(top_coins) = Min2(TOP_N, Cardinality(eligible))

\* fewer eligible symbols than TOP_N beside ineligible ones: all are returned
C4_Witness ==
    /\ pc = "rank_done"
    /\ ~tickers.raised
    /\ Len(tickers.tickers) > Len(top_coins)
    /\ Len(top_coins) >= 1
    /\ Len(top_coins) < TOP_N

\* C5: ticker-map failure.  Once fetching the tickers has failed, the
\* candidate list is empty, no candles are fetched, no strategy is computed,
\* no alert is dispatched, nothing else is reported as an error, and
\* run_scanner carries on to its end.
C5_TickerFailure ==
    RankingFailed =>
        /\ top_coins = <<>>
        /\ fetchLog = <<>>
        /\ analyzeLog = <<>>
        /\ notifyLog = <<>>
        /\ Len(errorLog) = 1
        /\ pc \in {"loop", "done"}

C5_Witness == RankingFailed /\ pc = "done"

\* C6: scan completion.  A started scan eventually reaches its completed
\* state, having requested each candidate's candles exactly once.
C6_ScanCompletes ==
    (pc = "loop") ~> (pc = "done" /\ SymbolsOf(fetchLog) = top_coins)

\* a completed scan of TOP_N candidates that met a fetch failure and a
\* dispatch failure
C6_Witness ==
    /\ pc = "done"
    /\ Len(top_coins) = TOP_N
    /\ \E k \in 1..Len(fetchLog) : fetchLog[k].raised
    /\ \E m \in 1..Len(notifyLog) : ~notifyLog[m].delivered

\* C7: alert ordering and multiplicity.  The notify attempts are for
\* candidates, in strictly increasing ranking position: a subsequence of the
\* ranking with no symbol twice, so a failed dispatch is not tried again.
C7_AlertOrder ==
    /\ \A m \in 1..Len(notifyLog) : \E p \in 1..Len(top_coins) : top_coins[p] = notifyLog[m].symbol
    /\ \A m, n \in 1..Len(notifyLog) :
        m < n => Position(notifyLog[m].symbol) < Position(notifyLog[n].symbol)

\* a failed dispatch followed by the next candidate's alert
C7_Witness ==
    /\ pc = "done"
    /\ Len(notifyLog) = 2
    /\ ~notifyLog[1].delivered
    /\ notifyLog[1].symbol = top_coins[1]
    /\ notifyLog[2].symbol = top_coins[2]

\* C8: insufficient data.  A candidate whose series came back with fewer
\* than LIMIT candles is not handed to calculate_strategy and gets no
\* alert, and right after that fetch the loop stands at the next candidate.
C8_InsufficientData ==
    \A k \in 1..Len(fetchLog) :
        (~fetchLog[k].raised /\ fetchLog[k].len < LIMIT) =>
            /\ ~InLog(analyzeLog, fetchLog[k].symbol)
            /\ ~InLog(notifyLog, fetchLog[k].symbol)
            /\ idx > k
            /\ k = Len(fetchLog) => (idx = k + 1 /\ pc \in {"loop", "done"})

\* a series one candle short for the first candidate, and the second
\* candidate analyzed after it
C8_Witness ==
    /\ Len(fetchLog) >= 2
    /\ ~fetchLog[1].raised
    /\ fetchLog[1].len = LIMIT - 1
    /\ InLog(analyzeLog, fetchLog[2].symbol)

\* C9: warm-up readiness.  The undefined loss of a warm-up row never enters
\* a comparison of the trailing stop loop or of the crossover test, and a
\* signal is reported only if the trailing stop is defined in the last two
\* rows (HA_Close is defined in every row).
C9_WarmupNotReady ==
    /\ ~nanCompared
    /\ (pc = "cs_done" /\ result.signal # NoSignal) =>
        (~IsNaN(trailing_stop[Len(df)]) /\ ~IsNaN(trailing_stop[Len(df) - 1]))

\* C10: risk targets.  A reported signal's entry is the raw close of the
\* last candle; a Long's stop loss is the lowest raw low of the last
\* SL_LOOKBACK candles and its take profit lies RISK_REWARD times the risk
\* above the entry; a Short's stop loss is the highest raw high of that
\* window and its take profit lies RISK_REWARD times the risk below.
C10_RiskTargets ==
    (pc = "cs_done" /\ result.signal # NoSignal) =>
        LET window == {k \in 1..Len(df) : k > Len(df) - SL_LOOKBACK}
        IN  /\ result.entry = df[Len(df)].close
            /\ result.signal = "LONG" =>
                /\ \E k \in window : df[k].low = result.sl
                /\ \A k \in window : df[k].low >= result.sl
                /\ result.tp - result.entry = RISK_REWARD * (result.entry - result.sl)
            /\ result.signal = "SHORT" =>
                /\ \E k \in window : df[k].high = result.sl
                /\ \A k \in window : df[k].high <= result.sl
                /\ result.entry - result.tp = RISK_REWARD * (result.sl - result.entry)

\* a Long whose stop is the low of the signal candle alone, and a positive
\* risk
C10_Witness ==
    /\ pc = "cs_done"
    /\ result.signal = "LONG"
    /\ \A k \in 1..(Len(df) - 1) : result.sl < df[k].low
    /\ result.tp > result.entry

---------------------------------------------------------------------------
(* The scan loop is sequential.                                            *)

\* all the work for the candidate at rank k has completed or failed
WorkFinished(k) ==
    LET symbol == top_coins[k] IN
    /\ k <= Len(fetchLog)
    /\ (~fetchLog[k].raised /\ fetchLog[k].len >= LIMIT)
            => InLog(analyzeLog, symbol)
    /\ \A a \in 1..Len(analyzeLog) :
            (analyzeLog[a].symbol = symbol /\ analyzeLog[a].outcome \in {"LONG", "SHORT"})
                => InLog(notifyLog, symbol)

\* C11: strictly sequential processing.  Candles are requested in ranking
\* order; at most one candidate is in progress, the one at rank idx, and
\* only between its fetch and the end of its work; whenever the fetch for a
\* rank can start (or has started) all the work for every earlier rank has
\* completed or failed; and nothing is ever recorded for a candidate whose
\* candles were not requested yet.
C11_Sequential ==
    /\ Len(fetchLog) <= Len(top_coins)
    /\ \A k \in 1..Len(fetchLog) : fetchLog[k].symbol = top_coins[k]
    /\ Len(fetchLog) = IF pc \in {"analyze", "notify"} THEN idx ELSE idx - 1
    /\ \A k \in 1..Len(top_coins) : k < idx => WorkFinished(k)
    /\ \A a \in 1..Len(analyzeLog) : InLog(fetchLog, analyzeLog[a].symbol)
    /\ \A m \in 1..Len(notifyLog) : InLog(analyzeLog, notifyLog[m].symbol)
    /\ pc = "analyze" => ~InLog(analyzeLog, top_coins[idx])
    /\ pc = "notify" => ~InLog(notifyLog, top_coins[idx])

\* the candidate at rank 2 is in progress after an alert for rank 1 was
\* dispatched
C11_Witness ==
    /\ pc = "analyze"
    /\ idx = 2
    /\ Len(notifyLog) = 1
    /\ notifyLog[1].symbol = top_coins[1]

---------------------------------------------------------------------------
(* calculate_strategy keeps nothing from call to call.                     *)

\* C12: no cross-symbol or cross-scan state.  Whatever calls came before,
\* the outcome a call returns (signal, entry, stop loss, take profit) is the
\* outcome calculate_strategy computes from that call's candle series
\* alone, and it is the outcome every earlier call on the same candle
\* series returned.
C12_NoCarriedState ==
    pc = "cs_done" =>
        LET last == returned[Len(returned)] IN
        /\ last.df = df
        /\ last.result = result
        /\ \E atr \in AtrChoices(df) : last.nLoss = NLoss(atr)
        /\ result = GenerateSignal(df, TrailingStop(df, last.nLoss, Len(df) - 1))
        /\ \A b \in 1..Len(returned) :
                returned[b].df = df => returned[b].result = result

\* the same series was analysed twice and gave, both times, a signal whose
\* stop loss lies away from the entry
C12_Witness ==
    /\ Len(returned) >= 2
    /\ returned[1].df = returned[2].df
    /\ returned[2].result.signal # NoSignal
    /\ returned[2].result.sl # returned[2].result.entry

---------------------------------------------------------------------------
(* The trailing stop.  Row k of the model is index k - 1 of the code.      *)

\* which of the four rules applies at row k, read from the state: 1 both
\* prices above the previous stop, 2 both below, 3 the price above, 4
\* otherwise
RuleAt(k) ==
    LET prevStop == Val(trailing_stop[k - 1])
        price == ha.close[k]
        prevPrice == ha.close[k - 1]
    IN  IF price > prevStop /\ prevPrice > prevStop THEN 1
        ELSE IF price < prevStop /\ prevPrice < prevStop THEN 2
        ELSE IF price > prevStop THEN 3
        ELSE 4

\* the stop the rule at row k prescribes; max and min of the previous stop
\* and an undefined number keep the previous stop, and a sum or difference
\* with an undefined loss is undefined
RuleValue(k) ==
    LET prevStop == Val(trailing_stop[k - 1])
        price == ha.close[k]
        loss == nLoss[k]
        rule == RuleAt(k)
    IN  IF IsNaN(loss)
        THEN IF rule \in {1, 2} THEN F(prevStop) ELSE NaN
        ELSE IF rule = 1 THEN F(Max2(prevStop, price - Val(loss)))
        ELSE IF rule = 2 THEN F(Min2(prevStop, price + Val(loss)))
        ELSE IF rule = 3 THEN F(price - Val(loss))
        ELSE F(price + Val(loss))

\* C13: the trailing stop transition.  trailing_stop[0] is 0 whatever the
\* prices; every index i >= 1 the loop has passed holds the value that the
\* first applicable of the four rules gives for (haClose[i], haClose[i-1],
\* trailing_stop[i-1], loss[i]); and the indices are processed in
\* increasing order: the ones the loop has not reached still hold the 0.0
\* the list was created with.
C13_TransitionRule ==
    pc \in {"cs_loop", "cs_done"} =>
        /\ Len(trailing_stop) = Len(df)
        /\ i \in 1..Len(df)
        /\ trailing_stop[1] = F(0)
        /\ \A k \in 2..i :
                /\ ~IsNaN(trailing_stop[k - 1])
                /\ trailing_stop[k] = RuleValue(k)
        /\ \A k \in (i + 1)..Len(df) : trailing_stop[k] = F(0)

\* a series on which the loop has used three of the four rules, the
\* ratchet having kept the previous stop at least once after the warm-up
C13_Witness ==
    /\ pc = "cs_done"
    /\ Cardinality({RuleAt(k) : k \in 2..Len(df)}) >= 3
    /\ \E k \in 2..Len(df) :
            /\ ~IsNaN(nLoss[k])
            /\ RuleAt(k) \in {1, 2}
            /\ trailing_stop[k] = trailing_stop[k - 1]
            /\ Val(trailing_stop[k]) # 0

\* C14: the ratchet.  At every index i >= 1 with a defined, non-negative
\* loss: when haClose[i] and haClose[i-1] are both strictly above
\* trailing_stop[i-1], trailing_stop[i] >= trailing_stop[i-1] and
\* trailing_stop[i] <= haClose[i]; when both are strictly below,
\* trailing_stop[i] <= trailing_stop[i-1] and trailing_stop[i] >=
\* haClose[i].  So the stop moves against the trend (down while the previous
\* price was above it, up while it was below) only at an index where the
\* price has crossed or touched the previous stop.
C14_Ratchet ==
    pc \in {"cs_loop", "cs_done"} =>
        \A k \in 2..i :
            (~IsNaN(nLoss[k]) /\ Val(nLoss[k]) >= 0) =>
                /\ ~IsNaN(trailing_stop[k]) /\ ~IsNaN(trailing_stop[k - 1])
                /\ LET prevStop == Val(trailing_stop[k - 1])
                       stop == Val(trailing_stop[k])
                       price == ha.close[k]
                       prevPrice == ha.close[k - 1]
                   IN  /\ (price > prevStop /\ prevPrice > prevStop)
                            => (stop >= prevStop /\ stop <= price)
                       /\ (price < prevStop /\ prevPrice < prevStop)
                            => (stop <= prevStop /\ stop >= price)
                       /\ (prevPrice > prevStop /\ stop < prevStop)
                            => price <= prevStop
                       /\ (prevPrice < prevStop /\ stop > prevStop)
                            => price >= prevStop

\* after a flip to the downside the ratchet has held the stop against a
\* rising price: both prices strictly below the previous stop, a positive
\* loss, and the stop kept where it was
C14_Witness ==
    /\ pc \in {"cs_loop", "cs_done"}
    /\ \E k \in 2..i :
            /\ ~IsNaN(nLoss[k]) /\ Val(nLoss[k]) > 0
            /\ ha.close[k] < Val(trailing_stop[k - 1])
            /\ ha.close[k - 1] < Val(trailing_stop[k - 1])
            /\ ha.close[k] > ha.close[k - 1]
            /\ trailing_stop[k] = trailing_stop[k - 1]

---------------------------------------------------------------------------
(* The signal.  n is the last row, n - 1 the one before it.                *)

\* the two crossover conditions, read from the state of the call
CrossedUp ==
    /\ ha.close[Len(df)] > Val(trailing_stop[Len(df)])
    /\ ha.close[Len(df) - 1] <= Val(trailing_stop[Len(df) - 1])

CrossedDown ==
    /\ ha.close[Len(df)] < Val(trailing_stop[Len(df)])
    /\ ha.close[Len(df) - 1] >= Val(trailing_stop[Len(df) - 1])

\* C15: crossover detection on the last two candles.  The call returns LONG
\* exactly when haClose[n] > TS[n] and haClose[n-1] <= TS[n-1], SHORT exactly
\* when haClose[n] < TS[n] and haClose[n-1] >= TS[n-1], and no signal
\* otherwise; the two conditions never hold together.
C15_Crossover ==
    pc = "cs_done" =>
        /\ ~IsNaN(trailing_stop[Len(df)])
        /\ ~IsNaN(trailing_stop[Len(df) - 1])
        /\ result.signal = "LONG" <=> CrossedUp
        /\ result.signal = "SHORT" <=> CrossedDown
        /\ result.signal = NoSignal <=> (~CrossedUp /\ ~CrossedDown)
        /\ ~(CrossedUp /\ CrossedDown)

\* a LONG whose previous candle only touched its stop: haClose[n-1] =
\* TS[n-1]
C15_Witness ==
    /\ pc = "cs_done"
    /\ result.signal = "LONG"
    /\ ha.close[Len(df) - 1] = Val(trailing_stop[Len(df) - 1])
    /\ ha.close[Len(df)] > Val(trailing_stop[Len(df)])

---------------------------------------------------------------------------
(* The crossover test on its own: step 4 of calculate_strategy applied at  *)
(* every index of a synthetic series whose HA_Close is given, against a    *)
(* trailing stop that is the same number at every index.                   *)

\* the length of the synthetic series
CrossLen == 5

\* a flat candle's HA_Close is its price, so a series of flat candles has
\* the HA_Close series one wants
SyntheticSeries ==
    {[k \in 1..CrossLen |-> FlatCandle(h[k])] : h \in [1..CrossLen -> Prices({1, 2, 3})]}

ConstantStops == {[k \in 1..CrossLen |-> F(c)] : c \in Prices({1, 2, 3})}

InitCross ==
    /\ pc = "x_loop"
    /\ df \in SyntheticSeries
    /\ trailing_stop \in ConstantStops
    /\ ha = [close |-> HA_Close(df), open |-> HA_Open(df)]
    /\ i = 1
    /\ returned = <<>>
    /\ top_coins = <<>>
    /\ idx = 1
    /\ result = NoResult
    /\ fetchLog = <<>>
    /\ analyzeLog = <<>>
    /\ notifyLog = <<>>
    /\ errorLog = <<>>
    /\ tickers = NoTickers
    /\ nLoss = <<>>
    /\ nanCompared = FALSE

\* step 4 with index i as the last row and i - 1 as the previous one
DetectAt ==
    /\ pc = "x_loop"
    /\ i < Len(df)
    /\ result' = GenerateSignal(SubSeq(df, 1, i + 1), SubSeq(trailing_stop, 1, i + 1))
    /\ returned' = Append(returned, result')
    /\ i' = i + 1
    /\ pc' = IF i + 1 = Len(df) THEN "x_done" ELSE "x_loop"
    /\ UNCHANGED <<df, trailing_stop, ha, nLoss, nanCompared, otherVars>>

NextCross == DetectAt

SpecCross == InitCross /\ [][NextCross]_vars

\* the constant the stop is, the rows of the series strictly below and
\* strictly above it, and the rows that touch it
StopValue == Val(trailing_stop[1])
RowsBelow == {k \in 1..Len(df) : ha.close[k] < StopValue}
RowsAbove == {k \in 1..Len(df) : ha.close[k] > StopValue}
RowsTouching == {k \in 1..Len(df) : ha.close[k] = StopValue}

\* The series crosses the stop exactly once, upward: it is below the stop,
\* then above it, and never below again; rows that touch the stop are on
\* neither side.  The crossing row is the first one above.
CrossesOnceUp ==
    /\ RowsBelow # {} /\ RowsAbove # {}
    /\ \A b \in RowsBelow, a \in RowsAbove : b < a

CrossesOnceDown ==
    /\ RowsBelow # {} /\ RowsAbove # {}
    /\ \A b \in RowsBelow, a \in RowsAbove : a < b

\* the series touches the stop only on its way across: after its last row
\* on the side it starts on and before its first row on the other side
TouchesOnlyWhileCrossing ==
    \A t \in RowsTouching :
        \/ CrossesOnceUp /\ SetMax(RowsBelow) < t /\ t < SetMin(RowsAbove)
        \/ CrossesOnceDown /\ SetMax(RowsAbove) < t /\ t < SetMin(RowsBelow)

\* the test at row k + 1 is entry k of returned (row 1 has no previous row)
SignalAtRow(k) == IF k = 1 THEN NoSignal ELSE returned[k - 1].signal

\* one signal of the given direction, at the given row, and none elsewhere
OnlySignal(direction, row) ==
    \A k \in 1..Len(df) :
        SignalAtRow(k) = IF k = row THEN direction ELSE NoSignal

\* C16 as stated: a series that crosses a constant stop exactly once upward
\* gives exactly one Long, at the crossing index, and no signal at any other
\* index; mirrored for a downward crossing and Short.
C16_AsStated ==
    pc = "x_done" =>
        /\ CrossesOnceUp => OnlySignal("LONG", SetMin(RowsAbove))
        /\ CrossesOnceDown => OnlySignal("SHORT", SetMin(RowsBelow))

\* C16, amended: a series that crosses a constant stop exactly once upward,
\* and equals the stop nowhere but between its last value below and its
\* first value above, gives exactly one Long, at the crossing index, and no
\* signal at any other index; mirrored for a downward crossing and Short.
C16_SingleCrossing ==
    pc = "x_done" =>
        /\ (CrossesOnceUp /\ TouchesOnlyWhileCrossing)
                => OnlySignal("LONG", SetMin(RowsAbove))
        /\ (CrossesOnceDown /\ TouchesOnlyWhileCrossing)
                => OnlySignal("SHORT", SetMin(RowsBelow))

\* a series that goes from below the stop to above it through a row that
\* touches it, tested at every index
C16_Witness ==
    /\ pc = "x_done"
    /\ CrossesOnceUp
    /\ TouchesOnlyWhileCrossing
    /\ RowsTouching # {}
    /\ OnlySignal("LONG", SetMin(RowsAbove))

---------------------------------------------------------------------------
(* The Heikin Ashi columns.                                                *)

\* C17: the Heikin Ashi transform.  For a series of length L >= 1 the two
\* columns have length L, row for row; haClose[i] is the mean of the
\* candle's open, high, low and close, so a flat candle at v gives v;
\* haOpen[0] = (open[0] + close[0]) / 2; haOpen[i] = (haOpen[i-1] +
\* haClose[i-1]) / 2 for i >= 1; and a later call on the same series gives
\* the same columns.
C17_HeikinAshi ==
    pc \in {"cs_loop", "cs_done"} =>
        /\ Len(df) >= 1
        /\ Len(ha.close) = Len(df)
        /\ Len(ha.open) = Len(df)
        /\ \A k \in 1..Len(df) :
                /\ 4 * ha.close[k] = df[k].open + df[k].high + df[k].low + df[k].close
                /\ df[k] = FlatCandle(df[k].close) => ha.close[k] = df[k].close
        /\ 2 * ha.open[1] = df[1].open + df[1].close
        /\ \A k \in 2..Len(df) : 2 * ha.open[k] = ha.open[k - 1] + ha.close[k - 1]
        /\ \A b \in 1..Len(returned) : returned[b].df = df => returned[b].ha = ha

\* the columns of a series whose candles are not all flat, computed a
\* second time, with haOpen away from the raw opens
C17_Witness ==
    /\ pc = "cs_done"
    /\ Len(returned) >= 2
    /\ returned[1].df = df
    /\ \E k \in 1..Len(df) : df[k] # FlatCandle(df[k].close)
    /\ \E k \in 2..Len(df) : ha.open[k] # df[k].open /\ ha.open[k] # ha.open[k - 1]

---------------------------------------------------------------------------
(* The targets of a signal.                                                *)

\* every candle of the series is well formed: low <= open, close <= high
WellFormed(d) ==
    \A k \in 1..Len(d) :
        /\ d[k].low <= d[k].open /\ d[k].low <= d[k].close
        /\ d[k].open <= d[k].high /\ d[k].close <= d[k].high

\* C18: the sides of the targets.  For well-formed candles and RISK_REWARD
\* >= 0, a LONG is returned with stopLoss <= entry <= takeProfit and a
\* SHORT with takeProfit <= entry <= stopLoss.
C18_TargetSides ==
    (pc = "cs_done" /\ WellFormed(df) /\ RISK_REWARD >= 0) =>
        /\ result.signal = "LONG"
                => (result.sl <= result.entry /\ result.entry <= result.tp)
        /\ result.signal = "SHORT"
                => (result.tp <= result.entry /\ result.entry <= result.sl)

\* a SHORT whose entry is the high of the signal candle and above every
\* earlier high of the window: the stop loss is the entry itself
C18_Witness ==
    /\ pc = "cs_done"
    /\ result.signal = "SHORT"
    /\ result.sl = result.entry
    /\ result.tp = result.entry
    /\ \A k \in RecentRows(df) : k < Len(df) => df[k].high < result.entry

\* C19: a signal only where the stop flipped.  With a defined, non-negative
\* loss at the last index n: LONG implies haClose[n-1] <= TS[n-1] <
\* haClose[n], loss[n] > 0 and TS[n] = haClose[n] - loss[n]; SHORT implies
\* haClose[n] <= TS[n-1] <= haClose[n-1], loss[n] > 0 and TS[n] =
\* haClose[n] + loss[n]; and no signal is returned when the last candle was
\* handled by one of the two ratchet rules (max, min).
C19_SignalOnlyOnFlip ==
    (pc = "cs_done" /\ ~IsNaN(nLoss[Len(df)]) /\ Val(nLoss[Len(df)]) >= 0) =>
        LET n == Len(df)
            loss == Val(nLoss[n])
            stop == Val(trailing_stop[n])
            prevStop == Val(trailing_stop[n - 1])
        IN  /\ result.signal = "LONG" =>
                /\ ha.close[n - 1] <= prevStop /\ prevStop < ha.close[n]
                /\ loss > 0
                /\ stop = ha.close[n] - loss
            /\ result.signal = "SHORT" =>
                /\ ha.close[n] <= prevStop /\ prevStop <= ha.close[n - 1]
                /\ loss > 0
                /\ stop = ha.close[n] + loss
            /\ RuleAt(n) \in {1, 2} => result.signal = NoSignal

\* a SHORT on a candle that fell through a stop the previous candle was
\* strictly above
C19_Witness ==
    /\ pc = "cs_done"
    /\ result.signal = "SHORT"
    /\ RuleAt(Len(df)) = 4
    /\ Val(nLoss[Len(df)]) > 0
    /\ ha.close[Len(df)] < Val(trailing_stop[Len(df) - 1])
    /\ Val(trailing_stop[Len(df) - 1]) < ha.close[Len(df) - 1]

====
